---- MODULE Spec2Model ----
(***************************************************************************)
(* Model of packages/turbo-tasks/src/turbo_tasks.rs: the TurboTasks engine *)
(* with its two concurrent maps (interning_map, task_cache), the memoized  *)
(* dynamic_call protocol, intern, spawn_root_task, the unit of work that   *)
(* schedule() spawns, and the task-local TURBO_TASKS binding.              *)
(*                                                                         *)
(* Execution contexts are numbered: 1..NumThreads are callers outside any  *)
(* scheduled task (their TURBO_TASKS cell keeps its initial value None);   *)
(* NumThreads + u is the unit of work number u spawned by schedule().      *)
(* A step that touches only a call's locals is merged with the next step   *)
(* that touches shared state; the bucket locks of the two CHashMaps are    *)
(* held across steps wherever a closure runs under them.                   *)
(***************************************************************************)
EXTENDS Integers, Sequences, FiniteSets, Bags, TLC

\* ---------------------------------------------------------------- bounds
MaxCalls == 2

\* ------------------------------------------------------------ input sets
Funcs == {"F", "G"}
InputNodes == {"a", "b"}
InputLists == {l \in {<<x, y>> : x \in InputNodes, y \in InputNodes} : l[1] # l[2]}
Types == {"T1", "T2"}
KeyVals == {"x", "y"}
Factories == {"root_fn"}
ConstructionErrors == {"InvalidInputs"}
BodyResults == {"value", "no_output", "failure"}

\* every unit of work is spawned by one API call
MaxUnits == MaxCalls

\* the callers that run outside any scheduled task
Threads == {1, 2}
NumThreads == Cardinality(Threads)
UnitCtx(u) == NumThreads + u
Ctx == 1..(NumThreads + MaxUnits)

TaskKeyUnordered(func, inputs) ==
    <<func, CHOOSE l \in InputLists :
                \A n \in InputNodes :
                    Cardinality({i \in DOMAIN l : l[i] = n}) =
                    Cardinality({i \in DOMAIN inputs : inputs[i] = n})>>

\* the key of task_cache: (&'static NativeFunction, Vec<NodeRef>)
TaskKey(func, inputs) == <<func, inputs>>
TaskKeys == {TaskKey(f, i) : f \in Funcs, i \in InputLists}

InternKeyValueOnly(ty, key) == <<CHOOSE t \in Types : TRUE, key>>

InternKeyTypeOnly(ty, key) == <<ty, CHOOSE k \in KeyVals : TRUE>>

\* the key of interning_map: Box::new((TypeId::of::<T>(), key))
InternKey(ty, key) == <<ty, key>>
InternKeys == {InternKey(t, k) : t \in Types, k \in KeyVals}

NoTask == 0
NoNode == 0

VARIABLES
    task_cache,      \* TurboTasks.task_cache: key -> task id, NoTask when absent
    interning_map,   \* TurboTasks.interning_map: key -> node id, NoNode when absent
    tasks,           \* every Task ever constructed (Arc<Task> identity = index)
    nodes,           \* every NodeRef a fallback produced (identity = index)
    units,           \* every unit of work schedule() spawned
    ambient,         \* per context: the task-local TURBO_TASKS cell and current task
    call,            \* per context: the API call in progress
    returned,        \* history: the bag of the outcomes of the finished calls
    attempts,        \* history: Task::new_native executions per key
    ncalls,          \* history: calls begun so far
    viz              \* the visualize call: its snapshot and the tasks asked

vars == <<task_cache, interning_map, tasks, nodes, units, ambient, call,
          returned, attempts, ncalls, viz>>

\* --------------------------------------------------------------- records
\* a context with no call in progress
Idle == [op |-> "none", pc |-> "idle", func |-> "-", inputs |-> <<>>,
         ty |-> "-", key |-> "-", amb |-> "None",
         kind |-> "none", task |-> NoTask, err |-> "-"]

\* let mut result_task = Err(anyhow!("Unreachable"));
Unreachable == "Unreachable"
NoAmbientEngine == "NoAmbientEngine"

\* task_local! { static TURBO_TASKS: Cell<Option<..>> = Cell::new(None); }
Unbound == [engine |-> "None", task |-> NoTask]

\* no visualize call has begun
NoViz == [pc |-> "idle", snap |-> [k \in TaskKeys |-> NoTask], seen |-> {},
          asked |-> <<>>]

Init ==
    /\ task_cache = [k \in TaskKeys |-> NoTask]
    /\ interning_map = [k \in InternKeys |-> NoNode]
    /\ tasks = <<>>
    /\ nodes = <<>>
    /\ units = <<>>
    /\ ambient = [c \in Ctx |-> Unbound]
    /\ call = [c \in Ctx |-> Idle]
    /\ returned = EmptyBag
    /\ attempts = [k \in TaskKeys |-> 0]
    /\ ncalls = 0
    /\ viz = NoViz

\* ------------------------------------------------------- shared helpers
CallKey(c) == TaskKey(call[c].func, call[c].inputs)
CallInternKey(c) == InternKey(call[c].ty, call[c].key)

CurrentAlwaysBound(c) == "tt"

\* TurboTasks::current(): TURBO_TASKS.with(|c| c.get())
Current(c) == ambient[c].engine

\* a context may issue an API call: a caller outside any task at any time,
\* a unit of work while its body (task.execute()) runs
CanBegin(c) ==
    /\ ncalls < MaxCalls
    /\ call[c].pc = "idle"
    /\ \/ c \in Threads
       \/ /\ c - NumThreads \in DOMAIN units
          /\ units[c - NumThreads].pc = "running"

\* the engine a call of the given form works on: the explicit form (only
\* threads that hold the &'static TurboTasks use it here) or current()
Engine(c, form) == IF form = "explicit" THEN "tt" ELSE Current(c)

DynOp(form) == IF form = "explicit" THEN "dynamic_call" ELSE "dynamic_call_ambient"
InternOp(form) == IF form = "explicit" THEN "intern" ELSE "intern_ambient"

Enter(c, form) ==
    /\ CanBegin(c)
    /\ form = "explicit" => c \in Threads
    /\ Engine(c, form) # "None"

\* the record a finished call leaves in the history
Outcome(c, op, func, inputs, ty, key, kind, task, node, err) ==
    [from |-> IF c \in Threads THEN "thread" ELSE "unit", op |-> op,
     func |-> func, inputs |-> inputs, ty |-> ty,
     key |-> key, amb |-> ambient[c].engine, kind |-> kind, task |-> task,
     node |-> node, err |-> err]

\* the async block handed to Builder::spawn, before it ran any statement
NewUnit(t) == [task |-> t, pc |-> "spawned", result |-> "-", trace |-> <<>>]

TaskCacheLockedWhileBodyRuns(k) ==
    \/ \E c \in Ctx : call[c].pc = "publish" /\ CallKey(c) = k
    \/ \E u \in DOMAIN units :
          /\ units[u].pc # "done"
          /\ tasks[units[u].task].kind = "native"
          /\ TaskKey(tasks[units[u].task].func, tasks[units[u].task].inputs) = k

TaskCacheNeverLocked(k) == FALSE

\* CHashMap::alter holds the write lock of the key's bucket while the closure
\* runs, until the closure's result is stored
TaskCacheLocked(k) ==
    \E c \in Ctx : call[c].pc = "publish" /\ CallKey(c) = k

\* CHashMap::upsert holds the write lock of the key's bucket while the insert
\* closure (the fallback) runs
InterningMapLocked(k) ==
    \E c \in Ctx : call[c].pc = "fallback" /\ CallInternKey(c) = k

\* Task::ensure_scheduled(self): schedules the task unless it already is
EnsureScheduled(t) ==
    IF \E u \in DOMAIN units : units[u].task = t THEN <<>> ELSE <<NewUnit(t)>>

\* ---------------------------------------------------------- dynamic_call
\* the ambient form with no engine bound, lines 133-134: the error is
\* returned before tt.dynamic_call is reached
DynamicCallNoEngine(c, func, inputs) ==
    /\ CanBegin(c)
    /\ Current(c) = "None"
    /\ returned' = returned (+) SetToBag(
          {Outcome(c, "dynamic_call_ambient", "-", <<>>, "-", "-",
                   "err", NoTask, NoNode, NoAmbientEngine)})
    /\ ncalls' = ncalls + 1
    /\ UNCHANGED <<viz, task_cache, interning_map, tasks, nodes, units, ambient,
                   call, attempts>>

ResultOnHitNotSet(t) == [kind |-> "err", task |-> NoTask, err |-> Unreachable]

\* result_task after the Some(t) arm: Ok(t.clone()) (line 60)
ResultOnHit(t) == [kind |-> "hit", task |-> t, err |-> "-"]

SpawnedOnHitAgain(t) == <<NewUnit(t)>>

\* what the alter closure spawns on a hit: nothing (lines 59-62)
SpawnedOnHit(t) == <<>>

\* alter closure, Some(t): the entry stays, result_task = Ok(t.clone())
AlterHit(c, form, func, inputs) ==
    /\ Enter(c, form)
    /\ ~TaskCacheLocked(TaskKey(func, inputs))
    /\ task_cache[TaskKey(func, inputs)] # NoTask
    /\ LET t == task_cache[TaskKey(func, inputs)] IN
        /\ Len(units) + Len(SpawnedOnHit(t)) <= MaxUnits
        /\ call' = [call EXCEPT ![c] = [Idle EXCEPT !.op = DynOp(form),
                       !.pc = "ret", !.func = func, !.inputs = inputs,
                       !.amb = Current(c), !.kind = ResultOnHit(t).kind,
                       !.task = ResultOnHit(t).task,
                       !.err = ResultOnHit(t).err]]
        /\ units' = units \o SpawnedOnHit(t)
    /\ ncalls' = ncalls + 1
    /\ UNCHANGED <<viz, task_cache, interning_map, tasks, nodes, ambient,
                   returned, attempts>>

SpawnedOnMissDeferred(t) == <<>>

\* line 66: the Ok arm spawns the unit of work of the task it has built
SpawnedOnMiss(t) == <<NewUnit(t)>>

\* alter closure, None, Task::new_native(inputs, func) = Ok(task): Arc::new,
\* self.schedule, result_task = Ok(new_task) (lines 64-67); the bucket stays
\* locked and empty until the closure's Some(new_task) is stored
AlterMissOk(c, form, func, inputs) ==
    /\ Enter(c, form)
    /\ ~TaskCacheLocked(TaskKey(func, inputs))
    /\ task_cache[TaskKey(func, inputs)] = NoTask
    /\ Len(units) < MaxUnits
    /\ tasks' = Append(tasks, [kind |-> "native", func |-> func,
                               inputs |-> inputs])
    /\ units' = units \o SpawnedOnMiss(Len(tasks) + 1)
    /\ attempts' = [attempts EXCEPT ![TaskKey(func, inputs)] = @ + 1]
    /\ call' = [call EXCEPT ![c] = [Idle EXCEPT !.op = DynOp(form),
                   !.pc = "publish", !.func = func, !.inputs = inputs,
                   !.amb = Current(c), !.kind = "miss",
                   !.task = Len(tasks) + 1]]
    /\ ncalls' = ncalls + 1
    /\ UNCHANGED <<viz, task_cache, interning_map, nodes, ambient, returned>>

ResultOnFailureNotSet(err) == Unreachable

\* result_task after the Err(err) arm: Err(err) (line 71)
ResultOnFailure(err) == err

EntryAfterFailureCached(k) == -1

\* what the alter closure leaves in the bucket when construction failed:
\* None (lines 70-73)
EntryAfterFailure(k) == NoTask

\* alter closure, None, Task::new_native(inputs, func) = Err(err):
\* result_task = Err(err), None is stored, and result_task? returns the error
AlterMissErr(c, form, func, inputs, err) ==
    /\ Enter(c, form)
    /\ ~TaskCacheLocked(TaskKey(func, inputs))
    /\ task_cache[TaskKey(func, inputs)] = NoTask
    /\ attempts' = [attempts EXCEPT ![TaskKey(func, inputs)] = @ + 1]
    /\ task_cache' = [task_cache EXCEPT ![TaskKey(func, inputs)] =
                         EntryAfterFailure(TaskKey(func, inputs))]
    /\ returned' = returned (+) SetToBag(
          {Outcome(c, DynOp(form), func, inputs, "-", "-", "err", NoTask,
                   NoNode, ResultOnFailure(err))})
    /\ ncalls' = ncalls + 1
    /\ UNCHANGED <<viz, interning_map, tasks, nodes, units, ambient, call>>

\* the closure returns Some(new_task): alter stores it and unlocks the bucket
AlterPublish(c) ==
    /\ call[c].pc = "publish"
    /\ task_cache' = [task_cache EXCEPT ![CallKey(c)] = call[c].task]
    /\ call' = [call EXCEPT ![c].pc = "ret"]
    /\ UNCHANGED <<viz, interning_map, tasks, nodes, units, ambient, returned,
                   attempts, ncalls>>

\* lines 76-78: result_task? returns an Err as it is; with Ok(task),
\* task.ensure_scheduled(self) and Ok(Box::pin(task.into_output(self)))
DynReturn(c) ==
    /\ call[c].pc = "ret"
    /\ IF call[c].kind = "err"
       THEN units' = units
       ELSE /\ Len(units) + Len(EnsureScheduled(call[c].task)) <= MaxUnits
            /\ units' = units \o EnsureScheduled(call[c].task)
    /\ returned' = returned (+) SetToBag(
          {Outcome(c, call[c].op, call[c].func, call[c].inputs, "-", "-",
                   call[c].kind, call[c].task, NoNode, call[c].err)})
    /\ call' = [call EXCEPT ![c] = Idle]
    /\ UNCHANGED <<viz, task_cache, interning_map, tasks, nodes, ambient,
                   attempts, ncalls>>

\* ---------------------------------------------------------------- intern
\* the ambient form with no engine bound, lines 146-148:
\* current().ok_or_else(..).unwrap() panics in the caller
InternNoEngine(c, ty, key) ==
    /\ CanBegin(c)
    /\ Current(c) = "None"
    /\ call' = [call EXCEPT ![c] = [Idle EXCEPT !.pc = "panicked"]]
    /\ returned' = returned (+) SetToBag(
          {Outcome(c, "intern_ambient", "-", <<>>, "-", "-",
                   "panic", NoTask, NoNode, NoAmbientEngine)})
    /\ ncalls' = ncalls + 1
    /\ UNCHANGED <<viz, task_cache, interning_map, tasks, nodes, units, ambient,
                   attempts>>

UpsertNeverHits(k) == FALSE

\* upsert finds the key
UpsertHit(k) == interning_map[k] # NoNode

\* upsert found the key: only the update closure runs, node2 = existing, and
\* lines 122-125 return node2.unwrap()
UpsertUpdate(c, form, ty, key) ==
    /\ Enter(c, form)
    /\ ~InterningMapLocked(InternKey(ty, key))
    /\ UpsertHit(InternKey(ty, key))
    /\ returned' = returned (+) SetToBag(
          {Outcome(c, InternOp(form), "-", <<>>, ty, key, "node2", NoTask,
                   interning_map[InternKey(ty, key)], "-")})
    /\ ncalls' = ncalls + 1
    /\ UNCHANGED <<viz, task_cache, interning_map, tasks, nodes, units, ambient,
                   call, attempts>>

\* upsert found the bucket free: it is locked and the insert closure is next
UpsertVacant(c, form, ty, key) ==
    /\ Enter(c, form)
    /\ ~InterningMapLocked(InternKey(ty, key))
    /\ ~UpsertHit(InternKey(ty, key))
    /\ call' = [call EXCEPT ![c] = [Idle EXCEPT !.op = InternOp(form),
                   !.pc = "fallback",
                   !.ty = ty, !.key = key, !.amb = Current(c)]]
    /\ ncalls' = ncalls + 1
    /\ UNCHANGED <<viz, task_cache, interning_map, tasks, nodes, units, ambient,
                   returned, attempts>>

\* the insert closure: new_node = fallback(), node1 = Some(new_node.clone());
\* upsert stores new_node and unlocks the bucket; lines 122-123 return node1.
UpsertInsert(c) ==
    /\ call[c].pc = "fallback"
    /\ nodes' = Append(nodes, [ty |-> call[c].ty, key |-> call[c].key])
    /\ interning_map' = [interning_map EXCEPT ![CallInternKey(c)] = Len(nodes) + 1]
    /\ returned' = returned (+) SetToBag(
          {Outcome(c, call[c].op, "-", <<>>, call[c].ty, call[c].key,
                   "node1", NoTask, Len(nodes) + 1, "-")})
    /\ call' = [call EXCEPT ![c] = Idle]
    /\ UNCHANGED <<viz, task_cache, tasks, units, ambient, attempts, ncalls>>

\* ------------------------------------------------------- spawn_root_task
RootTaskDeduplicated(factory) ==
    IF \E t \in DOMAIN tasks : tasks[t].kind = "root" /\ tasks[t].func = factory
    THEN CHOOSE t \in DOMAIN tasks : tasks[t].kind = "root" /\ tasks[t].func = factory
    ELSE Len(tasks) + 1

\* Arc::new(Task::new_root(functor)): a new allocation on every call
RootTask(factory) == Len(tasks) + 1

\* lines 42-49
SpawnRootTask(c, factory) ==
    /\ CanBegin(c)
    /\ c \in Threads
    /\ Len(units) < MaxUnits
    /\ LET t == RootTask(factory) IN
        /\ tasks' = IF t = Len(tasks) + 1
                    THEN Append(tasks, [kind |-> "root", func |-> factory,
                                        inputs |-> <<>>])
                    ELSE tasks
        /\ units' = Append(units, NewUnit(t))
        /\ returned' = returned (+) SetToBag(
              {Outcome(c, "spawn_root_task", factory, <<>>, "-", "-",
                       "root", t, NoNode, "-")})
    /\ ncalls' = ncalls + 1
    /\ UNCHANGED <<viz, task_cache, interning_map, nodes, ambient, call, attempts>>

\* -------------------------------------------- the unit of work of schedule
\* lines 85-87, up to the first poll of task.execute(): set_current and
\* TURBO_TASKS.set write the unit's own task-locals, then execution_started
BeforeBody == <<"bind", "started">>

BoundContextsGlobal(u) == Ctx

\* task_local!: the cell written by a unit of work is that unit's own
BoundContexts(u) == {UnitCtx(u)}

UnitStart(u) ==
    /\ u \in DOMAIN units
    /\ units[u].pc = "spawned"
    /\ ambient' = [c \in Ctx |->
                      IF c \in BoundContexts(u)
                      THEN [engine |-> "tt", task |-> units[u].task]
                      ELSE ambient[c]]
    /\ units' = [units EXCEPT ![u].pc = "running", ![u].trace = @ \o BeforeBody]
    /\ UNCHANGED <<viz, task_cache, interning_map, tasks, nodes, call, returned,
                   attempts, ncalls>>

\* lines 88-90, from the body's result on: finalize_execution, then
\* execution_completed(result, self)
AfterBodySkipsOnFailure(result) ==
    IF result = "failure" THEN <<"execute">>
    ELSE <<"execute", "finalize", "completed">>

AfterBody(result) == <<"execute", "finalize", "completed">>

\* the body ends with a result (the calls it made have returned) and the
\* unit runs to its end
UnitFinish(u, result) ==
    /\ u \in DOMAIN units
    /\ units[u].pc = "running"
    /\ call[UnitCtx(u)].pc = "idle"
    /\ units' = [units EXCEPT ![u].pc = "done", ![u].result = result,
                              ![u].trace = @ \o AfterBody(result)]
    /\ UNCHANGED <<viz, task_cache, interning_map, tasks, nodes, ambient, call,
                   returned, attempts, ncalls>>

\* ------------------------------------------------------------------ Next
Forms == {"explicit", "ambient"}

Next ==
    \/ \E c \in Ctx, f \in Funcs, i \in InputLists : DynamicCallNoEngine(c, f, i)
    \/ \E c \in Ctx, m \in Forms, f \in Funcs, i \in InputLists : AlterHit(c, m, f, i)
    \/ \E c \in Ctx, m \in Forms, f \in Funcs, i \in InputLists : AlterMissOk(c, m, f, i)
    \/ \E c \in Ctx, m \in Forms, f \in Funcs, i \in InputLists, e \in ConstructionErrors :
          AlterMissErr(c, m, f, i, e)
    \/ \E c \in Ctx : AlterPublish(c)
    \/ \E c \in Ctx : DynReturn(c)
    \/ \E c \in Ctx, t \in Types, k \in KeyVals : InternNoEngine(c, t, k)
    \/ \E c \in Ctx, m \in Forms, t \in Types, k \in KeyVals : UpsertUpdate(c, m, t, k)
    \/ \E c \in Ctx, m \in Forms, t \in Types, k \in KeyVals : UpsertVacant(c, m, t, k)
    \/ \E c \in Ctx : UpsertInsert(c)
    \/ \E c \in Ctx, fn \in Factories : SpawnRootTask(c, fn)
    \/ \E u \in 1..MaxUnits : UnitStart(u)
    \/ \E u \in 1..MaxUnits, r \in BodyResults : UnitFinish(u, r)

Spec == Init /\ [][Next]_vars

\* the executor runs every spawned unit of work, and a body goes on: the
\* calls it has begun take their remaining steps and it ends
Fairness ==
    \A u \in 1..MaxUnits :
        /\ WF_vars(UnitStart(u))
        /\ WF_vars(AlterPublish(UnitCtx(u)))
        /\ WF_vars(DynReturn(UnitCtx(u)))
        /\ WF_vars(\E r \in BodyResults : UnitFinish(u, r))

\* one thread and the bodies call dynamic_call in both forms, the thread
\* spawns root tasks, and the units of work run
NextLive ==
    \/ \E c \in Ctx \ {2}, m \in Forms, f \in Funcs, i \in InputLists :
          \/ AlterHit(c, m, f, i)
          \/ AlterMissOk(c, m, f, i)
          \/ \E e \in ConstructionErrors : AlterMissErr(c, m, f, i, e)
    \/ \E c \in Ctx \ {2} : AlterPublish(c) \/ DynReturn(c)
    \/ \E c \in Ctx \ {2}, factory \in Factories : SpawnRootTask(c, factory)
    \/ \E u \in 1..MaxUnits : UnitStart(u)
    \/ \E u \in 1..MaxUnits, r \in BodyResults : UnitFinish(u, r)

FairSpec == Init /\ [][NextLive]_vars /\ Fairness

\* ------------------------------------------------------------- visualize
\* line 154, self.task_cache.clone(): the copy read-locks every bucket, so it
\* is taken when no alter closure holds one
VisualizeSnapshot ==
    /\ viz.pc = "idle"
    /\ \A k \in TaskKeys : ~TaskCacheLocked(k)
    /\ viz' = [viz EXCEPT !.pc = "visiting", !.snap = task_cache]
    /\ UNCHANGED <<task_cache, interning_map, tasks, nodes, units, ambient,
                   call, returned, attempts, ncalls>>

VisitSourceLive == task_cache

\* line 154, .into_iter(): the loop walks the copy
VisitSource == viz.snap

\* the entries the loop has not reached
Remaining == {k \in TaskKeys : VisitSource[k] # NoTask /\ k \notin viz.seen}

\* what task.visualize(visualizer) hands to the visitor: the task
TaskVisualize(t) == <<t>>

\* line 155, one turn of the loop, in the order the map yields its entries
VisualizeVisit(k) ==
    /\ viz.pc = "visiting"
    /\ k \in Remaining
    /\ viz' = [viz EXCEPT !.seen = @ \cup {k},
                          !.asked = @ \o TaskVisualize(VisitSource[k])]
    /\ UNCHANGED <<task_cache, interning_map, tasks, nodes, units, ambient,
                   call, returned, attempts, ncalls>>

\* lines 156-157, the loop ends and visualize returns
VisualizeReturn ==
    /\ viz.pc = "visiting"
    /\ Remaining = {}
    /\ viz' = [viz EXCEPT !.pc = "done"]
    /\ UNCHANGED <<task_cache, interning_map, tasks, nodes, units, ambient,
                   call, returned, attempts, ncalls>>

\* one visualize call running beside the explicit-form operations of the
\* threads; the units of work stay spawned
NextViz ==
    \/ \E c \in Threads, f \in Funcs, i \in InputLists :
          \/ AlterHit(c, "explicit", f, i)
          \/ AlterMissOk(c, "explicit", f, i)
          \/ \E e \in ConstructionErrors : AlterMissErr(c, "explicit", f, i, e)
    \/ \E c \in Threads : AlterPublish(c) \/ DynReturn(c)
    \/ \E c \in Threads, ty \in Types, key \in KeyVals :
          \/ UpsertUpdate(c, "explicit", ty, key)
          \/ UpsertVacant(c, "explicit", ty, key)
    \/ \E c \in Threads : UpsertInsert(c)
    \/ \E c \in Threads, factory \in Factories : SpawnRootTask(c, factory)
    \/ VisualizeSnapshot
    \/ \E k \in TaskKeys : VisualizeVisit(k)
    \/ VisualizeReturn

SpecViz == Init /\ [][NextViz]_vars

\* ================================================================ claims
Outcomes == BagToSet(returned)

\* the outcome r was added by this step
Added(r) == CopiesIn(r, returned') > CopiesIn(r, returned)

IsDyn(r) == r.op \in {"dynamic_call", "dynamic_call_ambient"}
IsIntern(r) == r.op \in {"intern", "intern_ambient"}
GotTask(r) == IsDyn(r) /\ r.kind \in {"hit", "miss"}
GotNode(r) == IsIntern(r) /\ r.kind \in {"node1", "node2"}
SameKey(r1, r2) == r1.func = r2.func /\ r1.inputs = r2.inputs

\* the invocation tasks constructed for (func, inputs)
Constructed(func, inputs) ==
    {t \in DOMAIN tasks : /\ tasks[t].kind = "native"
                          /\ tasks[t].func = func
                          /\ tasks[t].inputs = inputs}

\* the nodes that fallbacks made for (ty, key)
Made(ty, key) == {n \in DOMAIN nodes : nodes[n].ty = ty /\ nodes[n].key = key}

\* the units of work spawned for task t
UnitsOf(t) == {u \in DOMAIN units : units[u].task = t}

\* how many finished calls satisfy P
RECURSIVE CountIn(_, _)
CountIn(S, B) ==
    IF S = {} THEN 0
    ELSE LET r == CHOOSE x \in S : TRUE IN CopiesIn(r, B) + CountIn(S \ {r}, B)

\* C1: whatever the number and interleaving of dynamic_call invocations with
\* one (function, inputs) key, construction succeeds at most once for the
\* key, exactly once as soon as a call holds a task, every call that gets a
\* task gets that one task, and it is the task the cache holds for the key.
C1_OneTaskPerKey ==
    /\ \A f \in Funcs, i \in InputLists : Cardinality(Constructed(f, i)) <= 1
    /\ \A r \in Outcomes :
          GotTask(r) => /\ Constructed(r.func, r.inputs) = {r.task}
                        /\ task_cache[<<r.func, r.inputs>>] = r.task
    /\ \A c \in Ctx :
          call[c].pc \in {"publish", "ret"} =>
              Constructed(call[c].func, call[c].inputs) = {call[c].task}
    /\ \A r1, r2 \in Outcomes :
          GotTask(r1) /\ GotTask(r2) /\ SameKey(r1, r2) => r1.task = r2.task

\* two calls with one key have returned, the one that missed and one that hit
C1_Witness ==
    \E r1, r2 \in Outcomes :
        /\ r1.kind = "miss" /\ r2.kind = "hit"
        /\ SameKey(r1, r2) /\ r1.task = r2.task

\* C2: for intern calls with one (type, key), exactly one fallback runs (that
\* of the call that inserts, which returns node1), no later or losing call
\* runs its fallback, and every call returns the node that fallback made.
C2_OneFallbackPerKey ==
    /\ \A t \in Types, k \in KeyVals : Cardinality(Made(t, k)) <= 1
    /\ \A r \in Outcomes :
          GotNode(r) => /\ Made(r.ty, r.key) = {r.node}
                        /\ interning_map[<<r.ty, r.key>>] = r.node
    /\ \A t \in Types, k \in KeyVals :
          CountIn({r \in Outcomes : r.kind = "node1" /\ r.ty = t /\ r.key = k},
                  returned) <= 1
    /\ \A r1, r2 \in Outcomes :
          GotNode(r1) /\ GotNode(r2) /\ r1.ty = r2.ty /\ r1.key = r2.key
              => r1.node = r2.node

\* the inserting call and a later call with the same key have both returned
C2_Witness ==
    \E r1, r2 \in Outcomes :
        /\ r1.kind = "node1" /\ r2.kind = "node2"
        /\ r1.ty = r2.ty /\ r1.key = r2.key /\ r1.node = r2.node

\* the dynamic_call failures with a construction error, for one key
Failed(f, i) ==
    {r \in Outcomes : /\ IsDyn(r) /\ r.kind = "err" /\ r.err \in ConstructionErrors
                      /\ r.func = f /\ r.inputs = i}

\* C3: a failed construction leaves no entry under its key and changes no
\* other entry; every failure a call returns is a construction that was
\* attempted (none is served from the cache), so a later call with the key
\* constructs again, and a later success is stored and returned.
C3_FailureNotCached ==
    /\ [](\A f \in Funcs, i \in InputLists :
            /\ Constructed(f, i) = {} => task_cache[<<f, i>>] = NoTask
            /\ task_cache[<<f, i>>] # NoTask => task_cache[<<f, i>>] \in Constructed(f, i)
            /\ attempts[<<f, i>>] =
                  CountIn(Failed(f, i), returned) + Cardinality(Constructed(f, i)))
    /\ [][\A r \in BagToSet(returned') :
            (Added(r) /\ IsDyn(r) /\ r.kind = "err" /\ r.err \in ConstructionErrors)
                => /\ task_cache'[<<r.func, r.inputs>>] = NoTask
                   /\ task_cache' = task_cache]_vars

\* a construction failed for a key and a later call with the key constructed
\* again, stored the task and returned it
C3_Witness ==
    \E r1, r2 \in Outcomes :
        /\ r1 \in Failed(r1.func, r1.inputs)
        /\ r2.kind = "miss" /\ SameKey(r1, r2)
        /\ attempts[<<r1.func, r1.inputs>>] = 2
        /\ task_cache[<<r2.func, r2.inputs>>] = r2.task

C5_InternNoAmbientEngineReturnsError ==
    /\ \A r \in Outcomes :
          (r.op = "intern_ambient" /\ r.amb = "None")
              => r.kind = "err" /\ r.err = NoAmbientEngine
    /\ \A c \in Ctx : call[c].pc # "panicked"

\* the order of one unit of work's events
FullTrace == <<"bind", "started", "execute", "finalize", "completed">>

\* C6: every unit of work, whatever its body results in, performs bind,
\* started, body, finalize, completed, each once and in this order: finalize
\* is never skipped and completed never precedes finalize.
C6_UnitEventOrder ==
    \A u \in DOMAIN units :
        /\ units[u].pc = "spawned" => units[u].trace = <<>>
        /\ units[u].pc = "running" =>
              /\ units[u].trace = SubSeq(FullTrace, 1, 2)
              /\ ambient[UnitCtx(u)] = [engine |-> "tt", task |-> units[u].task]
        /\ units[u].pc = "done" =>
              /\ units[u].trace = FullTrace
              /\ units[u].result \in BodyResults
        /\ units[u].pc \in {"spawned", "running", "done"}

\* one unit ended for each result a body can have
C6_Witness ==
    /\ \E u \in DOMAIN units : units[u].pc = "done" /\ units[u].result = "failure"
    /\ \E u \in DOMAIN units : units[u].pc = "done" /\ units[u].result # "failure"

\* C7: over any dynamic_call invocations with one key, the core spawns one
\* unit of work for the key's task: the miss spawns it, a hit spawns none.
C7_OneUnitPerKey ==
    /\ \A t \in DOMAIN tasks : Cardinality(UnitsOf(t)) = 1
    /\ \A u \in DOMAIN units : units[u].task \in DOMAIN tasks
    /\ \A f \in Funcs, i \in InputLists :
          Cardinality(UNION {UnitsOf(t) : t \in Constructed(f, i)}) <= 1

\* a miss and a hit on one key have returned and the task has its one unit
C7_Witness ==
    \E r1, r2 \in Outcomes :
        /\ r1.kind = "miss" /\ r2.kind = "hit" /\ SameKey(r1, r2)
        /\ Cardinality(UnitsOf(r1.task)) = 1

RootOutcomes == {r \in Outcomes : r.op = "spawn_root_task"}

\* C8: every spawn_root_task call makes a task no earlier call made, also
\* with the same factory; the task is scheduled once; it is no cache entry,
\* and the call leaves task_cache and interning_map as they were.
C8_RootTasksDistinct ==
    /\ [](\A r \in RootOutcomes :
            /\ CopiesIn(r, returned) = 1
            /\ r.task \in DOMAIN tasks /\ tasks[r.task].kind = "root"
            /\ Cardinality(UnitsOf(r.task)) = 1
            /\ \A k \in TaskKeys : task_cache[k] # r.task)
    /\ [](\A r1, r2 \in RootOutcomes : r1 # r2 => r1.task # r2.task)
    /\ [][\A r \in BagToSet(returned') :
            (Added(r) /\ r.op = "spawn_root_task")
                => /\ UNCHANGED <<task_cache, interning_map>>
                   /\ r.task \notin DOMAIN tasks
                   /\ Len(units') = Len(units) + 1]_vars

\* two calls with the same factory returned two tasks
C8_Witness ==
    \E t1, t2 \in DOMAIN tasks :
        /\ t1 # t2 /\ tasks[t1].kind = "root" /\ tasks[t2].kind = "root"
        /\ tasks[t1].func = tasks[t2].func
        /\ CountIn(RootOutcomes, returned) = 2

\* C9: two dynamic_call invocations return the same task exactly if their
\* functions are the same and their input lists are equal in order.
C9_KeyIsFunctionAndOrderedInputs ==
    /\ \A r1, r2 \in Outcomes :
          GotTask(r1) /\ GotTask(r2) => (r1.task = r2.task <=> SameKey(r1, r2))
    /\ \A r \in Outcomes :
          GotTask(r) => /\ tasks[r.task].func = r.func
                        /\ tasks[r.task].inputs = r.inputs
    /\ \A k \in TaskKeys :
          task_cache[k] # NoTask =>
              <<tasks[task_cache[k]].func, tasks[task_cache[k]].inputs>> = k

\* F with [a,b] and F with [b,a] returned two tasks, each in its own entry
C9_Witness ==
    \E r1, r2 \in Outcomes :
        /\ GotTask(r1) /\ GotTask(r2)
        /\ r1.func = r2.func
        /\ r1.inputs = <<"a", "b">> /\ r2.inputs = <<"b", "a">>
        /\ r1.task # r2.task
        /\ task_cache[<<r1.func, r1.inputs>>] = r1.task
        /\ task_cache[<<r2.func, r2.inputs>>] = r2.task

\* C10: intern calls of one type with different keys never share an entry:
\* the first call for each key runs its fallback and the node returned for
\* one key is never the node stored for another.
C10_KeysDoNotAlias ==
    /\ \A r1, r2 \in Outcomes :
          (GotNode(r1) /\ GotNode(r2) /\ r1.ty = r2.ty /\ r1.key # r2.key)
              => /\ r1.node # r2.node
                 /\ interning_map[<<r2.ty, r2.key>>] # r1.node
    /\ \A r \in Outcomes : GotNode(r) => Made(r.ty, r.key) # {}
    /\ \A k1, k2 \in InternKeys :
          (k1 # k2 /\ interning_map[k1] # NoNode) => interning_map[k1] # interning_map[k2]

\* one type, two keys, two fallbacks run, two nodes returned
C10_Witness ==
    \E r1, r2 \in Outcomes :
        /\ r1.kind = "node1" /\ r2.kind = "node1"
        /\ r1.ty = r2.ty /\ r1.key # r2.key /\ r1.node # r2.node

\* the step is a construction that failed for key k
ConstructionFails(k) ==
    /\ attempts'[k] = attempts[k] + 1
    /\ tasks' = tasks

\* C11: when the construction fails at a miss, the call returns the error the
\* construction raised (not the placeholder, not a task), no unit of work is
\* spawned by the call, nothing of the call is left to run (ensure_scheduled
\* and the output future are never reached) and no task exists for the key.
C11_ConstructionFailureReturned ==
    /\ [][\A f \in Funcs, i \in InputLists :
            ConstructionFails(TaskKey(f, i)) =>
                /\ \E r \in BagToSet(returned') :
                      /\ Added(r) /\ IsDyn(r)
                      /\ r.func = f /\ r.inputs = i
                      /\ r.kind = "err" /\ r.err \in ConstructionErrors
                      /\ r.task = NoTask
                /\ units' = units
                /\ call' = call
                /\ Constructed(f, i)' = Constructed(f, i)]_vars
    /\ [](\A r \in Outcomes :
            (IsDyn(r) /\ r.kind = "err" /\ r.err # NoAmbientEngine)
                => (r.err \in ConstructionErrors /\ r.task = NoTask))

\* a call failed in the construction and returned its error; no task, no unit
C11_Witness ==
    \E r \in Outcomes :
        /\ IsDyn(r) /\ r.kind = "err" /\ r.err \in ConstructionErrors
        /\ attempts[<<r.func, r.inputs>>] > 0
        /\ Constructed(r.func, r.inputs) = {}
        /\ units = <<>>

\* a call is inside its alter closure for key k
InClosure(k) == \E c \in Ctx : call[c].pc = "publish" /\ CallKey(c) = k

\* C12 as stated: the bucket lock of a key is never held while the body of
\* the key's task executes.
C12_LockNeverHeldWhileBodyRuns ==
    \A c \in Ctx :
        call[c].pc = "publish" =>
            \A u \in UnitsOf(call[c].task) : units[u].pc # "running"

\* C12: the bucket lock of a key is held only by a call that is inside its
\* alter closure (from the miss, through construction and spawning, to the
\* closure's return); the holder's release waits for no body, though the body
\* of the task it has just spawned may already run; a call that has its task
\* returns without waiting; and whenever no call is inside its closure for a
\* key, a dynamic_call for that key by any context that may call, the key's
\* own running body included, takes its decision at once, whatever the units
\* of work are doing.
C12_LockOnlyForDecision ==
    /\ \A k \in TaskKeys : TaskCacheLocked(k) => InClosure(k)
    /\ \A c \in Ctx :
          /\ call[c].pc = "publish" => ENABLED AlterPublish(c)
          /\ call[c].pc = "ret" => ENABLED DynReturn(c)
    /\ \A c \in Ctx, m \in Forms, f \in Funcs, i \in InputLists :
          (Enter(c, m) /\ ~InClosure(TaskKey(f, i))) =>
              ENABLED (\/ AlterHit(c, m, f, i)
                       \/ \E e \in ConstructionErrors :
                             AlterMissErr(c, m, f, i, e))

\* the body of a task called dynamic_call with its own key while it was
\* running, and the call has returned the task
C12_Witness ==
    /\ Len(units) = 1
    /\ units[1].pc = "running"
    /\ \E r \in Outcomes :
          /\ r.from = "unit" /\ r.kind = "hit"
          /\ r.task = units[1].task

\* the construction of task t for key (f, i) is finished and published:
\* the task exists, the entry of the key holds it, and no call is still
\* inside the closure that built it
Finished(t, f, i) ==
    /\ Constructed(f, i) = {t}
    /\ task_cache[TaskKey(f, i)] = t
    /\ \A c \in Ctx : ~(call[c].pc = "publish" /\ call[c].task = t)

\* C13: every entry of the invocation cache holds a task whose construction
\* has finished, and every hit, observed or already returned, has the task
\* built by the one successful construction for its key, after the closure
\* that built it has returned.
C13_HitAfterConstruction ==
    /\ \A f \in Funcs, i \in InputLists :
          task_cache[TaskKey(f, i)] # NoTask =>
              task_cache[TaskKey(f, i)] \in Constructed(f, i)
    /\ \A c \in Ctx :
          (call[c].pc = "ret" /\ call[c].kind = "hit") =>
              Finished(call[c].task, call[c].func, call[c].inputs)
    /\ \A r \in Outcomes :
          (IsDyn(r) /\ r.kind = "hit") => Finished(r.task, r.func, r.inputs)

\* a call has observed a hit on a key whose task another call constructed
C13_Witness ==
    \E c \in Ctx :
        /\ call[c].pc = "ret" /\ call[c].kind = "hit"
        /\ call[c].task \in Constructed(call[c].func, call[c].inputs)
        /\ \E r \in Outcomes : r.kind = "miss" /\ r.task = call[c].task

\* C14: from the binding that precedes the started hook until its end, a unit
\* of work reads its own ambient bindings, the engine that scheduled it and
\* its own task, whatever other units bind meanwhile; a thread outside any
\* unit stays unbound; and an ambient-form dynamic_call or intern made by a
\* body never fails with NoAmbientEngine and works on that engine's caches.
C14_UnitBindingsAreItsOwn ==
    /\ \A u \in DOMAIN units :
          units[u].pc \in {"running", "done"} =>
              /\ Current(UnitCtx(u)) = "tt"
              /\ ambient[UnitCtx(u)].task = units[u].task
    /\ \A c \in Threads : ambient[c] = Unbound
    /\ \A r \in Outcomes :
          (r.from = "unit" /\ r.op \in {"dynamic_call_ambient", "intern_ambient"})
              => /\ r.amb = "tt"
                 /\ r.err # NoAmbientEngine
                 /\ r.kind \in {"hit", "miss"} =>
                        task_cache[<<r.func, r.inputs>>] = r.task
                 /\ r.kind \in {"node1", "node2"} =>
                        interning_map[<<r.ty, r.key>>] = r.node

\* two units of work run at once, each bound to its own task, and a body has
\* made an ambient-form dynamic_call that returned a task
C14_Witness ==
    /\ \E u1, u2 \in DOMAIN units :
          /\ u1 # u2
          /\ units[u1].pc = "running" /\ units[u2].pc = "running"
          /\ ambient[UnitCtx(u1)].task # ambient[UnitCtx(u2)].task
    /\ \E r \in Outcomes :
          r.from = "unit" /\ r.op = "dynamic_call_ambient" /\ GotTask(r)

\* the keys the copy of the invocation cache holds
SnapKeys == {k \in TaskKeys : viz.snap[k] # NoTask}

Completed(u) ==
    /\ u \in DOMAIN units
    /\ \E n \in DOMAIN units[u].trace : units[u].trace[n] = "completed"

\* C16: with an executor that runs every spawned unit and bodies that end,
\* every unit of work that schedule() spawned reaches its completed hook;
\* and no step of any operation removes a unit, gives it another task or
\* takes back an event of its run.
C16_ScheduledTaskCompletes ==
    /\ \A u \in 1..MaxUnits : (u \in DOMAIN units) ~> Completed(u)
    /\ [][\A u \in DOMAIN units :
            /\ u \in DOMAIN units'
            /\ units'[u].task = units[u].task
            /\ Len(units'[u].trace) >= Len(units[u].trace)
            /\ SubSeq(units'[u].trace, 1, Len(units[u].trace)) = units[u].trace]_vars

\* a unit of work whose body failed has reached its completed hook while
\* another unit is still waiting for the executor
C16_Witness ==
    \E u1, u2 \in DOMAIN units :
        /\ Completed(u1) /\ units[u1].result = "failure"
        /\ units[u2].pc = "spawned"

\* C17: the placeholder error Unreachable is never what a call holds once its
\* closure has decided, nor what a call returns: the deciding arm writes the
\* result once and it stays as written until the call returns, so every
\* dynamic_call on an engine returns a task's output (hit or miss) or the
\* error of the construction.
C17_PlaceholderNeverReturned ==
    /\ [](/\ \A r \in Outcomes :
               /\ r.err # Unreachable
               /\ (IsDyn(r) /\ r.err # NoAmbientEngine) =>
                      \/ r.kind \in {"hit", "miss"} /\ r.task \in DOMAIN tasks
                      \/ r.kind = "err" /\ r.err \in ConstructionErrors
          /\ \A c \in Ctx :
               call[c].pc \in {"publish", "ret"} =>
                   /\ call[c].err # Unreachable
                   /\ call[c].kind \in {"hit", "miss"}
                   /\ call[c].task \in DOMAIN tasks)
    /\ [][\A c \in Ctx :
            (call[c].pc \in {"publish", "ret"} /\ call'[c].pc \in {"publish", "ret"})
                => /\ call'[c].kind = call[c].kind
                   /\ call'[c].task = call[c].task
                   /\ call'[c].err = call[c].err]_vars

\* a construction failed and its error was returned, and a later call holds
\* a task it is about to return
C17_Witness ==
    /\ \E r \in Outcomes : IsDyn(r) /\ r.kind = "err" /\ r.err \in ConstructionErrors
    /\ \E c \in Ctx : call[c].pc = "ret" /\ call[c].kind \in {"hit", "miss"}

\* C18: intern calls with equal key values and different types never share an
\* entry: each type has its own node, made by its own fallback, run once;
\* two calls return one node exactly when they agree on type and key value.
C18_TypeIsPartOfKey ==
    /\ \A r1, r2 \in Outcomes :
          (GotNode(r1) /\ GotNode(r2)) =>
              (r1.node = r2.node <=> (r1.ty = r2.ty /\ r1.key = r2.key))
    /\ \A r \in Outcomes :
          GotNode(r) => /\ nodes[r.node].ty = r.ty
                        /\ nodes[r.node].key = r.key
    /\ \A k \in DOMAIN interning_map :
          interning_map[k] # NoNode =>
              /\ nodes[interning_map[k]].ty = k[1]
              /\ nodes[interning_map[k]].key = k[2]
              /\ Made(k[1], k[2]) = {interning_map[k]}
    /\ \A t \in Types, k \in KeyVals : Cardinality(Made(t, k)) <= 1

\* one key value interned under two types: two fallbacks ran, one per type,
\* and two nodes were returned
C18_Witness ==
    \E r1, r2 \in Outcomes :
        /\ r1.kind = "node1" /\ r2.kind = "node1"
        /\ r1.key = r2.key /\ r1.ty # r2.ty /\ r1.node # r2.node
        /\ Made(r1.ty, r1.key) = {r1.node} /\ Made(r2.ty, r2.key) = {r2.node}

\* C19: both caches only grow: in every step of dynamic_call, intern,
\* spawn_root_task and of the units of work, a key that is mapped stays
\* mapped to the same task or node.
C19_CachesOnlyGrow ==
    [][/\ \A k \in DOMAIN task_cache :
             task_cache[k] # NoTask =>
                 (k \in DOMAIN task_cache' /\ task_cache'[k] = task_cache[k])
       /\ \A k \in DOMAIN interning_map :
             interning_map[k] # NoNode =>
                 (k \in DOMAIN interning_map' /\ interning_map'[k] = interning_map[k])]_vars

\* both caches hold an entry, and the task of the one has run to its end
C19_Witness ==
    /\ \E k \in TaskKeys :
          /\ task_cache[k] # NoTask
          /\ \E u \in UnitsOf(task_cache[k]) : units[u].pc = "done"
    /\ \E k \in InternKeys : interning_map[k] # NoNode

\* the keys that have an entry in the invocation cache
Entries == {k \in TaskKeys : task_cache[k] # NoTask}

\* the invocation tasks constructed so far
NativeTasks == {t \in DOMAIN tasks : tasks[t].kind = "native"}

\* the units of work spawned for invocation tasks
NativeUnits == {u \in DOMAIN units : units[u].task \in NativeTasks}

\* the calls that built and spawned a task and have not yet published it
Publishing == {c \in Ctx : call[c].pc = "publish"}

\* C20 as stated: the number of entries of the invocation cache always equals
\* the number of successful constructions and the number of invocation
\* tasks scheduled.
C20_EntriesEqualConstructions ==
    /\ Cardinality(Entries) = Cardinality(NativeTasks)
    /\ Cardinality(Entries) = Cardinality(NativeUnits)

\* C20: every task in the invocation cache, and every task a hit holds, has
\* its unit of work spawned already; the successful constructions and the
\* invocation tasks scheduled are always equal in number, one unit per task;
\* and the entries of the cache are those minus the tasks whose inserting
\* call is still inside its closure, so the three numbers are equal
\* whenever no call is between spawning and publishing.
C20_CachedTasksAreScheduled ==
    /\ \A k \in Entries : UnitsOf(task_cache[k]) # {}
    /\ \A c \in Ctx :
          (call[c].pc = "ret" /\ call[c].kind = "hit") => UnitsOf(call[c].task) # {}
    /\ \A r \in Outcomes : GotTask(r) => UnitsOf(r.task) # {}
    /\ \A t \in NativeTasks : Cardinality(UnitsOf(t)) = 1
    /\ Cardinality(NativeUnits) = Cardinality(NativeTasks)
    /\ Cardinality(Entries) = Cardinality(NativeTasks) - Cardinality(Publishing)
    /\ \A c \in Publishing :
          /\ CallKey(c) \notin Entries
          /\ UnitsOf(call[c].task) # {}

\* a call has built and spawned a second task and not yet published it: two
\* constructions, two units of work, one entry
C20_Witness ==
    /\ Cardinality(NativeTasks) = 2
    /\ Cardinality(NativeUnits) = 2
    /\ Cardinality(Entries) = 1
    /\ Publishing # {}

====
